---- MODULE Spec2Model ----
(***************************************************************************)
(* The news pipeline of NucleusNews/nucleus-monorepo:                      *)
(*   apps/fetcher      the ingestion gateway (two paged sources, Redis     *)
(*                     set of seen URLs, Redis list used as a queue),      *)
(*   apps/processor    the embedding worker (pops the queue, embeds,       *)
(*                     inserts an article document),                       *)
(*   apps/synthesizer  the clustering engine (DBSCAN over the unclustered  *)
(*                     articles, one oracle call and one summary document  *)
(*                     per cluster, one bulk write of cluster_id).         *)
(* The processes share only the two stores.  An article is identified by   *)
(* its URL; headline, body, author and dates do not steer any branch and   *)
(* are represented by the embedding the worker computes from them.         *)
(***************************************************************************)
EXTENDS Integers, Sequences, FiniteSets, TLC

VARIABLES
    apiKey,     \* apiKey[s]: source s has its API key (fetcher/main.py 13-14)
    seen,       \* Redis set  seen_articles_urls
    queue,      \* Redis list raw_articles_queue, head = left end
    gw,         \* gw[g]: control state and locals of gateway process g
    wk,         \* wk[w]: control state and locals of worker process w
    articles,   \* Mongo collection "articles", in insertion order; _id = index
    summaries,  \* Mongo collection "summaries", in insertion order; _id = index
    eng,        \* eng[e]: control state and locals of clustering process e
    pushed      \* history: pushed[u] = number of lpush calls made for URL u

vars == <<apiKey, seen, queue, gw, wk, articles, summaries, eng, pushed>>

(***************************************************************************)
(* Bounds of the model.                                                    *)
(***************************************************************************)
MaxUrls == 2         \* distinct URLs the sources can return
MaxPageLen == 2      \* articles on one returned page
MaxBacklog == 4      \* queue items waiting when the worker and engine start
PushCap == 3         \* the history counter pushed[u] saturates here
MaxFeed == 12        \* articles an endless source publishes before it runs dry
MaxSummaries == 2    \* the engine is not started again once so many summaries exist

Urls == 1..MaxUrls
NoUrl == 0           \* article.get('webUrl') / article.get('url') gave None or ''
NoCluster == 0       \* the document has no cluster_id field
None == "None"       \* Python None stored in a summary field

(***************************************************************************)
(* Program constants.                                                      *)
(***************************************************************************)
MAX_PAGES_TO_FETCH == 10
NumSources == 2
MinSamplesOne == 2 - 1    \* the mutant of DBSCAN_MIN_SAMPLES: one article is a cluster
DBSCAN_MIN_SAMPLES == 2
DBSCAN_EPS_NUM == 1      \* DBSCAN_EPS = 0.5 = DBSCAN_EPS_NUM / DBSCAN_EPS_DEN
DBSCAN_EPS_DEN == 2

GwIds == {1, 2}
WkIds == {1, 2}
EngIds == {1, 2}

(***************************************************************************)
(* Sequences helpers.                                                      *)
(***************************************************************************)
SeqsUpTo(S, n) == UNION {[1..k -> S] : k \in 0..n}

Range(s) == {s[i] : i \in DOMAIN s}

\* The element of a one-element set.  {F(x) : x \in {e}} computes e once and
\* hands its value to F; the recursive operators below take their arguments
\* this way, so that an argument is computed once per call also where it is
\* used under ENABLED.
The(S) == CHOOSE v \in S : TRUE

(***************************************************************************)
(*                      I N G E S T I O N   G A T E W A Y                  *)
(*                                                                         *)
(* pc: "off"    no such process is deployed                                *)
(*     "idle"   top of `while True` (before the first cycle, or sleeping)  *)
(*     "fetch"  top of `while page <= MAX_PAGES_TO_FETCH`, about to GET    *)
(*     "check"  in the for loop, about to call sismember for articles[idx] *)
(*     "push"   about to call lpush for articles[idx]                      *)
(*     "add"    about to call sadd for articles[idx]                       *)
(*     "terminated"  an exception that is no RequestException left the     *)
(*                   fetch function; the main loop has no handler          *)
(* source = 1: fetch_guardian_articles, 2: fetch_thenewsapi_articles.      *)
(* reqs, hadNew and failed are history fields: the page requests issued in *)
(* the current (or last) run over a source, whether the last request       *)
(* returned a page holding a URL absent from the seen set at that moment,  *)
(* and the sources whose request failed in the current (or last) cycle.    *)
(***************************************************************************)
GwOff ==
    [pc |-> "off", source |-> 0, page |-> 0, articles |-> <<>>, idx |-> 0,
     found |-> FALSE, total |-> 0, reqs |-> 0, hadNew |-> FALSE, failed |-> {}]

GwIdle == [GwOff EXCEPT !.pc = "idle"]

\* The main loop calls fetch_guardian_articles() then fetch_thenewsapi_articles()
\* then sleeps; a fetch function returns at once when its API key is not set.
\* The locals of the run that ended are dropped, the history fields kept.
RECURSIVE EnterSource(_, _)
EnterSource(r, s) ==
    LET kept == [GwIdle EXCEPT !.reqs = r.reqs, !.hadNew = r.hadNew,
                               !.failed = r.failed]
    IN IF s > NumSources
       THEN kept
       ELSE IF apiKey[s]
            THEN [kept EXCEPT !.pc = "fetch", !.source = s, !.page = 1]
            ELSE EnterSource(r, s + 1)

\* `break` out of the pagination loop, or its condition turning false.
LeaveSource(r) == EnterSource(r, r.source + 1)

\* End of the for loop over one page.  The first mutant has `while True` for
\* `while page <= MAX_PAGES_TO_FETCH`; the second goes on to the next page even
\* when the page held nothing new.
PageEndNoLimit(r) ==
    IF ~r.found
    THEN LeaveSource(r)
    ELSE [r EXCEPT !.pc = "fetch", !.page = r.page + 1, !.articles = <<>>,
                   !.idx = 0, !.found = FALSE]

PageEndNoStop(r) ==
    IF r.page + 1 > MAX_PAGES_TO_FETCH
    THEN LeaveSource(r)
    ELSE [r EXCEPT !.pc = "fetch", !.page = r.page + 1, !.articles = <<>>,
                   !.idx = 0, !.found = FALSE]

PageEnd(r) ==
    IF ~r.found
    THEN LeaveSource(r)
    ELSE IF r.page + 1 > MAX_PAGES_TO_FETCH
         THEN LeaveSource(r)
         ELSE [r EXCEPT !.pc = "fetch", !.page = r.page + 1, !.articles = <<>>,
                        !.idx = 0, !.found = FALSE]

\* Next iteration of `for article in articles`.
AfterArticle(r) ==
    IF r.idx < Len(r.articles)
    THEN [r EXCEPT !.pc = "check", !.idx = r.idx + 1]
    ELSE PageEnd(r)

\* The condition of line 74 / 132; the mutant leaves the membership test out.
IsNewNoSeenCheck(u) == u # NoUrl

IsNew(u) == u # NoUrl /\ u \notin seen

Pages == SeqsUpTo(Urls \cup {NoUrl}, MaxPageLen)

GwCycleStart(g) ==
    /\ gw[g].pc = "idle"
    /\ gw' = [gw EXCEPT ![g] = EnterSource([gw[g] EXCEPT !.failed = {}], 1)]
    /\ UNCHANGED <<apiKey, seen, queue, wk, articles, summaries, eng, pushed>>

\* History: one more page request in this run, and what it returned.
Requested(r, arts) ==
    [r EXCEPT !.reqs = IF r.page = 1 THEN 1 ELSE @ + 1,
              !.hadNew = \E i \in DOMAIN arts : IsNew(arts[i])]

\* requests.get succeeded and the response carried the page `arts`.
GwFetchOk(g, arts) ==
    /\ gw[g].pc = "fetch"
    /\ gw' = [gw EXCEPT ![g] =
                IF arts = <<>>
                THEN LeaveSource(Requested(gw[g], arts))
                ELSE [Requested(gw[g], arts) EXCEPT
                         !.pc = "check", !.articles = arts, !.idx = 1,
                         !.found = FALSE]]
    /\ UNCHANGED <<apiKey, seen, queue, wk, articles, summaries, eng, pushed>>

\* Lines 94-96 / 156-158; the mutant has `continue` for `break`.
FetchFailedRetry(r) == [r EXCEPT !.failed = @ \cup {r.source}]

FetchFailed(r) == LeaveSource([r EXCEPT !.failed = @ \cup {r.source}])

\* requests.get or raise_for_status raised a RequestException.
GwFetchFail(g) ==
    /\ gw[g].pc = "fetch"
    /\ gw' = [gw EXCEPT ![g] = FetchFailed(Requested(gw[g], <<>>))]
    /\ UNCHANGED <<apiKey, seen, queue, wk, articles, summaries, eng, pushed>>

GwCheck(g) ==
    /\ gw[g].pc = "check"
    /\ gw' = [gw EXCEPT ![g] =
                IF IsNew(gw[g].articles[gw[g].idx])
                THEN [gw[g] EXCEPT !.pc = "push", !.found = TRUE, !.total = @ + 1]
                ELSE AfterArticle(gw[g])]
    /\ UNCHANGED <<apiKey, seen, queue, wk, articles, summaries, eng, pushed>>

GwPush(g) ==
    /\ gw[g].pc = "push"
    /\ LET u == gw[g].articles[gw[g].idx] IN
         /\ queue' = <<u>> \o queue
         /\ pushed' = [pushed EXCEPT ![u] = IF @ < PushCap THEN @ + 1 ELSE @]
    /\ gw' = [gw EXCEPT ![g].pc = "add"]
    /\ UNCHANGED <<apiKey, seen, wk, articles, summaries, eng>>

\* Building article_payload raises on malformed source data: TypeError at line
\* 142 when description or snippet is null, AttributeError at line 81 when
\* fields is null.  Nothing was pushed for the article.
GwPayloadError(g) ==
    /\ gw[g].pc = "push"
    /\ gw' = [gw EXCEPT ![g].pc = "terminated"]
    /\ UNCHANGED <<apiKey, seen, queue, wk, articles, summaries, eng, pushed>>

GwAdd(g) ==
    /\ gw[g].pc = "add"
    /\ seen' = seen \cup {gw[g].articles[gw[g].idx]}
    /\ gw' = [gw EXCEPT ![g] = AfterArticle(gw[g])]
    /\ UNCHANGED <<apiKey, queue, wk, articles, summaries, eng, pushed>>

GwNext ==
    \E g \in GwIds :
        \/ GwCycleStart(g)
        \/ \E arts \in Pages : GwFetchOk(g, arts)
        \/ GwFetchFail(g)
        \/ GwCheck(g)
        \/ GwPush(g)
        \/ GwPayloadError(g)
        \/ GwAdd(g)

(***************************************************************************)
(*                       E M B E D D I N G   W O R K E R                   *)
(*                                                                         *)
(* pc: "off"      no such process is deployed                              *)
(*     "pop"      top of `while True`, about to call rpop                  *)
(*     "process"  holds the popped item, about to run json.loads and       *)
(*                process_article                                          *)
(*     "down"     the process was killed (used by SpecCrash only)          *)
(*     "terminated"  an exception left the main loop (the code has a       *)
(*                handler around the whole iteration: never reached)       *)
(* An empty queue makes the worker sleep and poll again: no state changes. *)
(* A queue item is the URL of the payload the gateway pushed; BadJson is   *)
(* an item that is no JSON text (the list is shared, any client can push). *)
(* dropped is a history field: the items this worker popped and did not    *)
(* store.                                                                  *)
(***************************************************************************)
BadJson == -1

WkOff == [pc |-> "off", item |-> NoUrl, dropped |-> {}]

WkReady == [pc |-> "pop", item |-> NoUrl, dropped |-> {}]

\* model.encode is an external function of the article text: any embedding.
Embeddings == {<<1, 0>>, <<1, 1>>, <<0, 1>>}

\* The document of line 69-73: the popped fields and the embedding, no cluster_id.
ProcessedDocument(u, emb) ==
    [url |-> u, embedding |-> emb, cluster_id |-> NoCluster]

\* rpop removes the item at the right end; the mutant reads it and leaves it
\* on the list until it is stored.
QueueAfterPeek(q) == q

QueueAfterPop(q) == SubSeq(q, 1, Len(q) - 1)

WkPop(w) ==
    /\ wk[w].pc = "pop"
    /\ queue # <<>>
    /\ wk' = [wk EXCEPT ![w] = [@ EXCEPT !.pc = "process", !.item = queue[Len(queue)]]]
    /\ queue' = QueueAfterPop(queue)
    /\ UNCHANGED <<apiKey, seen, gw, articles, summaries, eng, pushed>>

WkProcessOk(w, emb) ==
    /\ wk[w].pc = "process"
    /\ wk[w].item # BadJson
    /\ articles' = Append(articles, ProcessedDocument(wk[w].item, emb))
    /\ wk' = [wk EXCEPT ![w] = [@ EXCEPT !.pc = "pop", !.item = NoUrl]]
    /\ UNCHANGED <<apiKey, seen, queue, gw, summaries, eng, pushed>>

\* The handlers of line 79 and line 98: the error is printed and the loop
\* goes to its next iteration.  The mutant has no handler.
ItemErrorUncaught(r) == [r EXCEPT !.pc = "terminated", !.dropped = @ \cup {r.item}]

AfterItemError(r) ==
    [r EXCEPT !.pc = "pop", !.item = NoUrl, !.dropped = @ \cup {r.item}]

\* model.encode or insert_one raised, or body was None (TypeError at line 63):
\* caught at line 79, and the item is gone.
WkProcessFail(w) ==
    /\ wk[w].pc = "process"
    /\ wk[w].item # BadJson
    /\ wk' = [wk EXCEPT ![w] = AfterItemError(wk[w])]
    /\ UNCHANGED <<apiKey, seen, queue, gw, articles, summaries, eng, pushed>>

\* json.loads raised at line 91 on an item that is no JSON text: caught at
\* line 98.
WkLoadsFail(w) ==
    /\ wk[w].pc = "process"
    /\ wk[w].item = BadJson
    /\ wk' = [wk EXCEPT ![w] = AfterItemError(wk[w])]
    /\ UNCHANGED <<apiKey, seen, queue, gw, articles, summaries, eng, pushed>>

WkNext ==
    \E w \in WkIds :
        \/ WkPop(w)
        \/ \E emb \in Embeddings : WkProcessOk(w, emb)
        \/ WkProcessFail(w)

(***************************************************************************)
(*                 D B S C A N   (cosine metric, as sklearn)               *)
(***************************************************************************)
Dot(a, b) == a[1] * b[1] + a[2] * b[2]

\* The mutant takes every pair of vectors that are not opposed as neighbours.
WithinEpsLoose(a, b) == Dot(a, b) >= 0

\* cosine distance(a, b) = 1 - a.b / (|a| |b|) <= eps, in integers:
\* a.b / (|a| |b|) >= (DEN - NUM) / DEN, both sides squared (eps <= 1).
WithinEps(a, b) ==
    LET c == DBSCAN_EPS_DEN - DBSCAN_EPS_NUM IN
      /\ Dot(a, b) >= 0
      /\ DBSCAN_EPS_DEN * DBSCAN_EPS_DEN * Dot(a, b) * Dot(a, b)
            >= c * c * Dot(a, a) * Dot(b, b)

\* radius_neighbors: the points within eps of point p, p itself included.
Neighborhood(X, p) == {q \in DOMAIN X : WithinEps(X[p], X[q])}

IsCore(X, p) == Cardinality(Neighborhood(X, p)) >= DBSCAN_MIN_SAMPLES

\* The depth-first expansion of dbscan_inner from the points S: every point
\* still unlabelled that a chain of core points reaches.
RECURSIVE Expand(_, _, _)
Expand(X, labels, S) ==
    The({ The({ IF more \subseteq T THEN T ELSE Expand(X, labels, T \cup more)
                : more \in {{q \in DOMAIN X :
                               /\ labels[q] = -1
                               /\ \E p \in T : IsCore(X, p) /\ q \in Neighborhood(X, p)}} })
          : T \in {S} })

RECURSIVE DbscanInner(_, _, _, _)
DbscanInner(X, i, labels, label_num) ==
    The({ IF i > Len(X)
          THEN lab
          ELSE IF lab[i] # -1 \/ ~IsCore(X, i)
               THEN DbscanInner(X, i + 1, lab, label_num)
               ELSE The({ DbscanInner(X, i + 1,
                                      [q \in DOMAIN X |-> IF q \in S THEN label_num ELSE lab[q]],
                                      label_num + 1)
                          : S \in {Expand(X, lab, {i})} })
          : lab \in {labels} })

\* clustering.labels_ : -1 is noise, clusters are numbered from 0.
DbscanLabels(X) ==
    The({ DbscanInner(Y, 1, [q \in DOMAIN Y |-> -1], 0) : Y \in {X} })

(***************************************************************************)
(*                 O R A C L E   R E S P O N S E S                         *)
(*                                                                         *)
(* A response text is a sequence of tokens: the characters a fence is made *)
(* of, white space, and whole JSON values or prose as single tokens.       *)
(***************************************************************************)
FencedObject ==
    <<"BQ", "BQ", "BQ", "j", "s", "o", "n", "LF", "{h,s,t}", "LF", "BQ", "BQ", "BQ">>

BareFencedObject == <<"BQ", "BQ", "BQ", "LF", "{h,s,t}", "LF", "BQ", "BQ", "BQ">>

ResponseTexts ==
    { <<"{h,s,t}">>,               \* the object asked for
      FencedObject,                \* the same in a json fence
      BareFencedObject,            \* the same in a bare fence
      <<"prose">>,                 \* no JSON at all
      <<"prose", "LF", "{h,s,t}">>,  \* a sentence, then the object
      <<"{h}">>,                   \* an object without summary and tags
      <<"{}">>,                    \* the empty object
      <<"[x]">>,                   \* a non-empty list
      <<"[]">>,                    \* the empty list
      <<"str">> }                  \* a JSON string

\* llm.generate_content raised, or returned a response with this text.
OracleResults ==
    {[raised |-> TRUE, text |-> <<>>]}
        \cup {[raised |-> FALSE, text |-> t] : t \in ResponseTexts}

JsonNone == [type |-> "none", keys |-> {}, len |-> 0]

JsonError == [type |-> "error", keys |-> {}, len |-> 0]

\* str.strip(chars): drop leading and trailing characters that are in chars.
RECURSIVE LStrip(_, _)
LStrip(t, chars) ==
    The({IF s # <<>> /\ s[1] \in chars THEN LStrip(Tail(s), chars) ELSE s : s \in {t}})

RECURSIVE RStrip(_, _)
RStrip(t, chars) ==
    The({IF s # <<>> /\ s[Len(s)] \in chars
         THEN RStrip(SubSeq(s, 1, Len(s) - 1), chars)
         ELSE s : s \in {t}})

Strip(t, chars) == RStrip(LStrip(t, chars), chars)

\* json.loads: white space around one JSON value; anything else raises.
JsonLoads(t) ==
    The({ IF Len(body) # 1 THEN JsonError
          ELSE CASE body[1] = "{h,s,t}" ->
                      [type |-> "dict", keys |-> {"headline", "summary", "tags"}, len |-> 3]
                 [] body[1] = "{h}" -> [type |-> "dict", keys |-> {"headline"}, len |-> 1]
                 [] body[1] = "{}" -> [type |-> "dict", keys |-> {}, len |-> 0]
                 [] body[1] = "[x]" -> [type |-> "list", keys |-> {}, len |-> 1]
                 [] body[1] = "[]" -> [type |-> "list", keys |-> {}, len |-> 0]
                 [] body[1] = "str" -> [type |-> "str", keys |-> {}, len |-> 1]
                 [] OTHER -> JsonError
          : body \in {Strip(t, {"SP", "LF"})} })

\* summarize_articles, lines 76-82: the parsed value, or None when the call or
\* the parse raised.
SummarizeArticles(r) ==
    IF r.raised
    THEN JsonNone
    ELSE LET v == JsonLoads(Strip(Strip(r.text, {"BQ", "j", "s", "o", "n", "LF"}), {"BQ"}))
         IN IF v = JsonError THEN JsonNone ELSE v

\* Python truth of the value tested by `if summary_data:`.
Truthy(v) == v.len > 0

\* summary_data.get(key, default) on a dict.
DictGet(v, key, value, default) == IF key \in v.keys THEN value ELSE default

(***************************************************************************)
(*                     C L U S T E R I N G   E N G I N E                   *)
(*                                                                         *)
(* pc: "off"         no such process is deployed                           *)
(*     "idle"        top of `while True` (before a cycle, or sleeping)     *)
(*     "summarize"   in the loop over clusters, about to call the oracle   *)
(*                   for clusters[k]                                       *)
(*     "bulk"        after the loop, about to call bulk_write              *)
(*     "terminated"  an exception left run_clustering_and_summarization;   *)
(*                   the main loop has no handler, the process is gone     *)
(* found = unclustered_articles (as _ids), clusters = the dict `clusters`  *)
(* in insertion order.  created and log are history fields of the current  *)
(* (or last) cycle: the summaries it inserted, and for every oracle call   *)
(* it made what the oracle answered; written is the number of articles the *)
(* cycle's bulk_write marked (the count printed at line 145).  skipped is  *)
(* a history field over all cycles: the articles that were members of a    *)
(* cluster the process skipped.                                            *)
(***************************************************************************)
EngOff ==
    [pc |-> "off", found |-> <<>>, clusters |-> <<>>, k |-> 0,
     bulk_updates |-> <<>>, created |-> {}, log |-> <<>>, written |-> 0,
     skipped |-> {}]

EngIdle == [EngOff EXCEPT !.pc = "idle"]

\* The filter of the find, line 90; the mutant is the filter of test_clusters.py
\* line 49, which every article passes.
HasEmbedding(doc) == doc.embedding \in Embeddings

NotClustered(doc) == doc.cluster_id = NoCluster

\* articles_collection.find({"cluster_id": {"$exists": False}}), as _ids.
Unclustered(docs) ==
    SelectSeq([i \in DOMAIN docs |-> i], LAMBDA i : NotClustered(docs[i]))

\* Line 106: the label is a cluster's, not noise.  The mutant lets -1 pass.
AnyLabel(label) == label >= -1

IsClusterLabel(label) == label # -1

\* Lines 103-109: the keys of `clusters` in the order the loop first meets them.
RECURSIVE LabelOrder(_, _, _)
LabelOrder(labels, i, acc) ==
    The({ IF i > Len(labels)
          THEN a
          ELSE IF IsClusterLabel(labels[i]) /\ labels[i] \notin Range(a)
               THEN LabelOrder(labels, i + 1, Append(a, labels[i]))
               ELSE LabelOrder(labels, i + 1, a)
          : a \in {acc} })

\* Lines 98-109: the clusters formed over the found articles, each the list
\* of its members' _ids.
Clusters(docs, found) ==
    The({ The({ LET at(l) == SelectSeq([i \in DOMAIN found |-> i], LAMBDA i : labels[i] = l)
                IN [c \in DOMAIN order |->
                      [j \in DOMAIN at(order[c]) |-> found[at(order[c])[j]]]]
                : order \in {LabelOrder(labels, 1, <<>>)} })
          : labels \in {DbscanLabels([i \in DOMAIN found |-> docs[found[i]].embedding])} })

\* Lines 124-131.
SummaryDoc(sd, article_ids) ==
    [headline |-> DictGet(sd, "headline", "h", None),
     summary |-> DictGet(sd, "summary", "s", None),
     tags |-> DictGet(sd, "tags", <<"t">>, <<>>),
     related_article_ids |-> article_ids,
     article_count |-> Len(article_ids)]

\* Lines 135-136; the mutant queues the update of the first member only.
FirstUpdateOnly(article_ids, inserted_id) ==
    [j \in 1..1 |-> [id |-> article_ids[j], cluster_id |-> inserted_id]]

BulkUpdatesFor(article_ids, inserted_id) ==
    [j \in DOMAIN article_ids |-> [id |-> article_ids[j], cluster_id |-> inserted_id]]

\* End of one iteration of the loop over clusters, and lines 143-145.
AfterCluster(r) ==
    IF r.k < Len(r.clusters)
    THEN [r EXCEPT !.k = r.k + 1]
    ELSE IF r.bulk_updates = <<>>
         THEN [r EXCEPT !.pc = "idle", !.k = 0]
         ELSE [r EXCEPT !.pc = "bulk", !.k = 0]

\* Lines 121 and 138-141 when summary_data is falsy: nothing is done for the
\* cluster and the loop goes on.  The mutants return from the function, and
\* leave the main loop.
ExitOnSkip(r) == [r EXCEPT !.pc = "terminated"]

ReturnOnSkip(r) == [r EXCEPT !.pc = "idle", !.k = 0, !.bulk_updates = <<>>]

AfterSkipped(r) == AfterCluster(r)

\* What the oracle answered, as the log keeps it: the call raised, the text
\* is the requested object (bare or fenced), the text is no JSON, the text is
\* an object that lacks requested keys, or the text is JSON that is no object
\* or the empty object.
OracleClass(r) ==
    IF r.raised THEN "raised"
    ELSE IF r.text \in {<<"{h,s,t}">>, FencedObject, BareFencedObject} THEN "object"
    ELSE IF r.text \in {<<"prose">>, <<"prose", "LF", "{h,s,t}">>} THEN "unparseable"
    ELSE IF r.text = <<"{h}">> THEN "partial"
    ELSE "othershape"

\* Lines 88-115.
EngFind(e) ==
    /\ eng[e].pc = "idle"
    /\ \E unc \in {Unclustered(articles)} : \E cl \in {Clusters(articles, unc)} :
          eng' = [eng EXCEPT ![e] =
                    IF Len(unc) < DBSCAN_MIN_SAMPLES \/ cl = <<>>
                    THEN [EngIdle EXCEPT !.found = unc, !.skipped = eng[e].skipped]
                    ELSE [EngIdle EXCEPT !.pc = "summarize", !.found = unc,
                                         !.clusters = cl, !.k = 1,
                                         !.skipped = eng[e].skipped]]
    /\ UNCHANGED <<apiKey, seen, queue, gw, wk, articles, summaries, pushed>>

\* Lines 118-141: one iteration of the loop over clusters.
EngSummarize(e, r) ==
    /\ eng[e].pc = "summarize"
    /\ \E summary_data \in {SummarizeArticles(r)} :
       LET me == [eng[e] EXCEPT !.log = Append(@, OracleClass(r))]
           article_ids == me.clusters[me.k]
           inserted_id == Len(summaries) + 1
       IN IF ~Truthy(summary_data)
          THEN /\ eng' = [eng EXCEPT ![e] =
                            AfterSkipped([me EXCEPT !.skipped = @ \cup Range(article_ids)])]
               /\ UNCHANGED summaries
          ELSE IF summary_data.type # "dict"
          THEN \* summary_data.get raises AttributeError at line 125
               /\ eng' = [eng EXCEPT ![e] = [me EXCEPT !.pc = "terminated"]]
               /\ UNCHANGED summaries
          ELSE /\ summaries' = Append(summaries, SummaryDoc(summary_data, article_ids))
               /\ eng' = [eng EXCEPT ![e] =
                            AfterCluster([me EXCEPT
                                !.bulk_updates = @ \o BulkUpdatesFor(article_ids, inserted_id),
                                !.created = @ \cup {inserted_id}])]
    /\ UNCHANGED <<apiKey, seen, queue, gw, wk, articles, pushed>>

\* bulk_write applies the UpdateOne operations in order.
RECURSIVE BulkWrite(_, _)
BulkWrite(docs, updates) ==
    IF updates = <<>>
    THEN docs
    ELSE BulkWrite([docs EXCEPT ![updates[1].id].cluster_id = updates[1].cluster_id],
                   Tail(updates))

\* Lines 143-145.
EngBulkWrite(e) ==
    /\ eng[e].pc = "bulk"
    /\ articles' = BulkWrite(articles, eng[e].bulk_updates)
    /\ eng' = [eng EXCEPT ![e] = [@ EXCEPT !.pc = "idle", !.bulk_updates = <<>>,
                                            !.written = Len(eng[e].bulk_updates)]]
    /\ UNCHANGED <<apiKey, seen, queue, gw, wk, summaries, pushed>>

EngNext ==
    \E e \in EngIds :
        \/ EngFind(e)
        \/ \E r \in OracleResults : EngSummarize(e, r)
        \/ EngBulkWrite(e)

(***************************************************************************)
(*                        S P E C I F I C A T I O N S                      *)
(***************************************************************************)
AllUrls == 1..MaxFeed \cup 1..MaxUrls \cup 1..MaxBacklog

\* Spec: the three processes started on empty stores.
Init ==
    /\ apiKey \in [1..NumSources -> BOOLEAN]
    /\ seen = {}
    /\ queue = <<>>
    /\ gw = [g \in GwIds |-> IF g = 1 THEN GwIdle ELSE GwOff]
    /\ wk = [w \in WkIds |-> IF w = 1 THEN WkReady ELSE WkOff]
    /\ articles = <<>>
    /\ summaries = <<>>
    /\ eng = [e \in EngIds |-> IF e = 1 THEN EngIdle ELSE EngOff]
    /\ pushed = [u \in AllUrls |-> 0]

Next == GwNext \/ WkNext \/ EngNext

Spec == Init /\ [][Next]_vars

\* SpecEngine: the worker and the engine at work on a backlog the gateway has
\* queued (URLs 1..n pushed in this order), while the gateway sleeps.
InitEngine ==
    /\ apiKey = [s \in 1..NumSources |-> TRUE]
    /\ \E n \in 0..MaxBacklog :
          /\ seen = 1..n
          /\ queue = [i \in 1..n |-> n + 1 - i]
          /\ pushed = [u \in AllUrls |-> IF u <= n THEN 1 ELSE 0]
    /\ gw = [g \in GwIds |-> IF g = 1 THEN GwIdle ELSE GwOff]
    /\ wk = [w \in WkIds |-> IF w = 1 THEN WkReady ELSE WkOff]
    /\ articles = <<>>
    /\ summaries = <<>>
    /\ eng = [e \in EngIds |-> IF e = 1 THEN EngIdle ELSE EngOff]

NextEngine == WkNext \/ EngNext

SpecEngine == InitEngine /\ [][NextEngine]_vars

\* SpecGateway: the gateway alone, before the worker and the engine are started.
SpecGateway == Init /\ [][GwNext]_vars

\* SpecWorker: the worker alone on a backlog of n items, URLs n..1 from the
\* left end as the gateway pushed them, the positions in B overwritten by
\* items that are no JSON text.
InitWorker ==
    /\ apiKey = [s \in 1..NumSources |-> TRUE]
    /\ \E n \in 0..MaxBacklog : \E B \in SUBSET (1..n) :
          /\ seen = 1..n
          /\ queue = [i \in 1..n |-> IF i \in B THEN BadJson ELSE n + 1 - i]
          /\ pushed = [u \in AllUrls |-> IF u <= n THEN 1 ELSE 0]
    /\ gw = [g \in GwIds |-> IF g = 1 THEN GwIdle ELSE GwOff]
    /\ wk = [w \in WkIds |-> IF w = 1 THEN WkReady ELSE WkOff]
    /\ articles = <<>>
    /\ summaries = <<>>
    /\ eng = [e \in EngIds |-> IF e = 1 THEN EngIdle ELSE EngOff]

NextWorker == WkNext \/ \E w \in WkIds : WkLoadsFail(w)

SpecWorker == InitWorker /\ [][NextWorker]_vars

\* SpecPipeline: the three processes started on empty stores with the key of
\* the first source only, the source serving four articles on two pages, and
\* an oracle that answers with the requested object in a fence or raises.
\* The articles are near copies of one text or of another: embeddings
\* <<1, 0>> and <<2, 1>> are within the radius of each other, <<0, 1>> of
\* neither.
FeedPages == {<<1, 2>>, <<3, 4>>, <<>>}

FeedEmbeddings == {<<1, 0>>, <<2, 1>>, <<0, 1>>}

FeedOracle ==
    {[raised |-> TRUE, text |-> <<>>], [raised |-> FALSE, text |-> FencedObject]}

InitPipeline ==
    /\ Init
    /\ apiKey = [s \in 1..NumSources |-> s = 1]

NextPipeline ==
    \/ \E g \in GwIds :
          \/ GwCycleStart(g)
          \/ \E arts \in FeedPages : GwFetchOk(g, arts)
          \/ GwCheck(g)
          \/ GwPush(g)
          \/ GwAdd(g)
    \/ \E w \in WkIds :
          \/ WkPop(w)
          \/ \E emb \in FeedEmbeddings : WkProcessOk(w, emb)
          \/ WkProcessFail(w)
    \/ \E e \in EngIds :
          \/ EngFind(e)
          \/ \E r \in FeedOracle : EngSummarize(e, r)
          \/ EngBulkWrite(e)

SpecPipeline == InitPipeline /\ [][NextPipeline]_vars

\* SpecTwoGateways: two gateway instances, configured with the key of the
\* first source only, started against the same Redis before the worker and
\* the engine are started; the source serves pages of one article.
InitTwoGateways ==
    /\ apiKey = [s \in 1..NumSources |-> s = 1]
    /\ seen = {}
    /\ queue = <<>>
    /\ gw = [g \in GwIds |-> GwIdle]
    /\ wk = [w \in WkIds |-> IF w = 1 THEN WkReady ELSE WkOff]
    /\ articles = <<>>
    /\ summaries = <<>>
    /\ eng = [e \in EngIds |-> IF e = 1 THEN EngIdle ELSE EngOff]
    /\ pushed = [u \in AllUrls |-> 0]

RacePages == SeqsUpTo(Urls, 1)

NextTwoGateways ==
    \E g \in GwIds :
        \/ GwCycleStart(g)
        \/ \E arts \in RacePages : GwFetchOk(g, arts)
        \/ GwFetchFail(g)
        \/ GwCheck(g)
        \/ GwPush(g)
        \/ GwAdd(g)

SpecTwoGateways == InitTwoGateways /\ [][NextTwoGateways]_vars

\* SpecTwoEngines: two instances of the clustering service started on a
\* collection of n embedded articles the worker has stored, the queue
\* drained, with an oracle that answers the requested object or raises.
InitTwoEngines ==
    /\ apiKey = [s \in 1..NumSources |-> TRUE]
    /\ \E n \in 0..MaxBacklog :
          /\ seen = 1..n
          /\ pushed = [u \in AllUrls |-> IF u <= n THEN 1 ELSE 0]
          /\ \E embs \in [1..n -> Embeddings] :
                articles = [i \in 1..n |-> ProcessedDocument(i, embs[i])]
    /\ queue = <<>>
    /\ gw = [g \in GwIds |-> IF g = 1 THEN GwIdle ELSE GwOff]
    /\ wk = [w \in WkIds |-> IF w = 1 THEN WkReady ELSE WkOff]
    /\ summaries = <<>>
    /\ eng = [e \in EngIds |-> EngIdle]

NextTwoEngines ==
    \E e \in EngIds :
        \/ EngFind(e)
        \/ \E r \in FeedOracle : EngSummarize(e, r)
        \/ EngBulkWrite(e)

SpecTwoEngines == InitTwoEngines /\ [][NextTwoEngines]_vars

\* SpecCrash: the gateway and a worker that can be killed while it holds a
\* popped item and is started again by its supervisor.  The popped item
\* lived in the memory of the process only.  Which embedding a stored article
\* gets plays no part here: every article gets the same.
WkCrash(w) ==
    /\ wk[w].pc = "process"
    /\ wk' = [wk EXCEPT ![w] = [@ EXCEPT !.pc = "down", !.item = NoUrl,
                                         !.dropped = @ \cup {wk[w].item}]]
    /\ UNCHANGED <<apiKey, seen, queue, gw, articles, summaries, eng, pushed>>

WkRestart(w) ==
    /\ wk[w].pc = "down"
    /\ wk' = [wk EXCEPT ![w].pc = "pop"]
    /\ UNCHANGED <<apiKey, seen, queue, gw, articles, summaries, eng, pushed>>

NextCrash ==
    \/ GwNext
    \/ \E w \in WkIds :
          \/ WkPop(w)
          \/ WkProcessOk(w, <<1, 0>>)
          \/ WkCrash(w)
          \/ WkRestart(w)

SpecCrash == Init /\ [][NextCrash]_vars

\* SpecRetry: the worker and the engine on a backlog, with an oracle that
\* raises, answers with text that is no JSON, or answers the requested object.
\* The engine's loop keeps running (weak fairness of each of its steps), and
\* the oracle does not fail forever (strong fairness of the call that
\* succeeds: it is called again only every cycle).
OracleOk == [raised |-> FALSE, text |-> FencedObject]

RetryOracle ==
    {[raised |-> TRUE, text |-> <<>>], [raised |-> FALSE, text |-> <<"prose">>], OracleOk}

EngLoop(e) ==
    \/ EngFind(e)
    \/ \E r \in RetryOracle : EngSummarize(e, r)
    \/ EngBulkWrite(e)

NextRetry ==
    \/ WkNext
    \/ \E e \in EngIds : EngLoop(e)

FairRetry ==
    /\ WF_vars(EngLoop(1))
    /\ SF_vars(EngSummarize(1, OracleOk))

SpecRetry == InitEngine /\ [][NextRetry]_vars /\ FairRetry

\* SpecPaging: the gateway alone on sources that publish without end: a
\* request returns the newest article, not seen before, as long as the
\* sources have one; or an empty page; or the oldest article again.
EndlessPages ==
    LET fresh == {u \in 1..MaxFeed : u \notin seen} IN
      {<<>>} \cup {<<u>> : u \in {v \in fresh : \A w \in fresh : v <= w}}
             \cup {<<u>> : u \in seen \cap {1}}

NextPaging ==
    \E g \in GwIds :
        \/ GwCycleStart(g)
        \/ \E arts \in EndlessPages : GwFetchOk(g, arts)
        \/ GwFetchFail(g)
        \/ GwCheck(g)
        \/ GwPush(g)
        \/ GwAdd(g)

SpecPaging == Init /\ [][NextPaging]_vars

\* SpecTwoWorkers: one gateway, configured with the key of the first source
\* only, and two worker instances popping from the same queue, started on
\* empty stores.  Which embedding a stored article gets plays no part here:
\* every article gets the same.
InitTwoWorkers ==
    /\ apiKey = [s \in 1..NumSources |-> s = 1]
    /\ seen = {}
    /\ queue = <<>>
    /\ gw = [g \in GwIds |-> IF g = 1 THEN GwIdle ELSE GwOff]
    /\ wk = [w \in WkIds |-> WkReady]
    /\ articles = <<>>
    /\ summaries = <<>>
    /\ eng = [e \in EngIds |-> IF e = 1 THEN EngIdle ELSE EngOff]
    /\ pushed = [u \in AllUrls |-> 0]

NextTwoWorkers ==
    \/ GwNext
    \/ \E w \in WkIds :
          \/ WkPop(w)
          \/ WkProcessOk(w, <<1, 0>>)
          \/ WkProcessFail(w)

SpecTwoWorkers == InitTwoWorkers /\ [][NextTwoWorkers]_vars

(***************************************************************************)
(* SpecFaults: the three processes with store operations that raise.       *)
(*                                                                         *)
(* Gateway: sismember, lpush or sadd raises an error of the client library *)
(* (no RequestException, so line 94 does not catch it); it leaves the      *)
(* function and the main loop, which has no handler.  The call that raised *)
(* took no effect.                                                         *)
(* Engine: find, insert_one or bulk_write raises; neither the function nor *)
(* the main loop has a handler.  An ordered bulk_write stops at the first  *)
(* operation that fails, those before it applied.                          *)
(* Worker: an error of rpop is caught at line 98 and the loop goes on with *)
(* the state unchanged; an error of insert_one is WkProcessFail.           *)
(***************************************************************************)
GwStoreError(g) ==
    /\ gw[g].pc \in {"check", "push", "add"}
    /\ gw' = [gw EXCEPT ![g].pc = "terminated"]
    /\ UNCHANGED <<apiKey, seen, queue, wk, articles, summaries, eng, pushed>>

EngFindError(e) ==
    /\ eng[e].pc = "idle"
    /\ eng' = [eng EXCEPT ![e] = [EngIdle EXCEPT !.pc = "terminated",
                                                  !.skipped = eng[e].skipped]]
    /\ UNCHANGED <<apiKey, seen, queue, gw, wk, articles, summaries, pushed>>

\* The oracle answered with the requested object and insert_one raised.
EngInsertError(e) ==
    /\ eng[e].pc = "summarize"
    /\ eng' = [eng EXCEPT ![e] =
                 [@ EXCEPT !.pc = "terminated", !.log = Append(@, "object")]]
    /\ UNCHANGED <<apiKey, seen, queue, gw, wk, articles, summaries, pushed>>

EngBulkWriteError(e, n) ==
    /\ eng[e].pc = "bulk"
    /\ n < Len(eng[e].bulk_updates)
    /\ articles' = BulkWrite(articles, SubSeq(eng[e].bulk_updates, 1, n))
    /\ eng' = [eng EXCEPT ![e] = [@ EXCEPT !.pc = "terminated", !.written = n]]
    /\ UNCHANGED <<apiKey, seen, queue, gw, wk, summaries, pushed>>

FaultNext ==
    \/ \E g \in GwIds : GwStoreError(g)
    \/ \E e \in EngIds :
          \/ EngFindError(e)
          \/ EngInsertError(e)
          \/ \E n \in 0..(2 * Len(articles)) : EngBulkWriteError(e, n)

NextFaults == Next \/ FaultNext

SpecFaults == Init /\ [][NextFaults]_vars

\* SpecRestart: the worker and the engine on a backlog, with an engine whose
\* cycle can be cut short (find, insert_one or bulk_write raising, the oracle
\* answering a JSON value that is no object, or the process being killed) and
\* that its supervisor starts again: one cycle after the other, never two at
\* a time.
EngCrash(e) ==
    /\ eng[e].pc \in {"summarize", "bulk"}
    /\ eng' = [eng EXCEPT ![e].pc = "terminated"]
    /\ UNCHANGED <<apiKey, seen, queue, gw, wk, articles, summaries, pushed>>

EngRestart(e) ==
    /\ eng[e].pc = "terminated"
    /\ Len(summaries) < MaxSummaries
    /\ eng' = [eng EXCEPT ![e] = [EngIdle EXCEPT !.skipped = eng[e].skipped]]
    /\ UNCHANGED <<apiKey, seen, queue, gw, wk, articles, summaries, pushed>>

NextRestart ==
    \/ WkNext
    \/ EngNext
    \/ \E e \in EngIds :
          \/ EngFindError(e)
          \/ EngInsertError(e)
          \/ \E n \in 0..(2 * Len(articles)) : EngBulkWriteError(e, n)
          \/ EngCrash(e)
          \/ EngRestart(e)

SpecRestart == InitEngine /\ [][NextRestart]_vars

(***************************************************************************)
(*                              C L A I M S                                *)
(***************************************************************************)
\* The URL the gateway r is handling in its for loop.
Current(r) == r.articles[r.idx]

InFlight(u) == \E g \in GwIds : gw[g].pc = "add" /\ Current(gw[g]) = u

C1_Once ==
    \A u \in Urls :
        /\ pushed[u] <= 1
        /\ u \in seen => pushed[u] = 1
        /\ pushed[u] = 1 => u \in seen \/ InFlight(u)

C1_Step ==
    \A g \in GwIds :
        gw[g].pc = "check" /\ gw'[g] # gw[g] =>
            IF Current(gw[g]) # NoUrl /\ pushed[Current(gw[g])] = 0
            THEN gw'[g].pc = "push"
            ELSE gw'[g].pc # "push" /\ queue' = queue /\ pushed' = pushed

\* C1: with one gateway process, a URL is pushed onto the queue exactly once,
\* however often the sources return it: an article whose URL has not been
\* pushed yet goes on to the push, an article whose URL has been pushed is
\* skipped, and no URL has ever more than one push; every URL in the seen set
\* was pushed once.
C1_PushedExactlyOnce == []C1_Once /\ [][C1_Step]_vars

\* C1 witness: in a later page or cycle, the first article of the page carried
\* a URL pushed before and was skipped, and the gateway is at the next one.
C1_Witness ==
    /\ gw[1].pc = "check" /\ gw[1].idx = 2 /\ ~gw[1].found
    /\ gw[1].articles[1] # NoUrl
    /\ gw[1].articles[1] = gw[1].articles[2]
    /\ pushed[gw[1].articles[1]] = 1
    /\ gw[1].source = 2

\* C6: the gateway issues a further page request in a run over a source only
\* if the request before it returned a page with at least one URL absent from
\* the seen set: after an empty page, or a page with nothing new, none.
C6_NoRequestAfterStalePage ==
    \A g \in GwIds :
        gw[g].pc = "fetch" /\ gw[g].page > 1 =>
            gw[g].hadNew /\ gw[g].reqs = gw[g].page - 1

\* C6 witness: a run over the last source ended after its second request,
\* which succeeded and returned nothing new.
C6_Witness ==
    /\ gw[1].pc = "idle" /\ gw[1].reqs = 2 /\ ~gw[1].hadNew
    /\ gw[1].failed = {}

C10_Inv ==
    \A g \in GwIds :
        gw[g].pc \in {"fetch", "check", "push", "add"} =>
            gw[g].source \notin gw[g].failed

C10_Step ==
    \A g \in GwIds :
        LET r == gw[g]
            r2 == gw'[g]
        IN /\ r2.failed # r.failed /\ r2.failed # {} =>
                /\ r.pc = "fetch"
                /\ r2.failed = r.failed \cup {r.source}
                /\ queue' = queue /\ seen' = seen /\ pushed' = pushed
           /\ r.source = 1 /\ r2.source # 1 =>
                IF apiKey[2]
                THEN r2.pc = "fetch" /\ r2.source = 2 /\ r2.page = 1
                ELSE r2.pc = "idle"
           /\ r.pc = "idle" /\ r2 # r =>
                /\ r2.failed = {}
                /\ \A s \in r.failed :
                      (\A t \in 1..(s - 1) : ~apiKey[t]) =>
                          r2.pc = "fetch" /\ r2.source = s /\ r2.page = 1

\* C10: a page request that fails ends the run over that source for this
\* cycle (the source is not touched again before the next cycle), changes
\* neither the queue nor the seen set, and the cycle goes on with the first
\* page of the other source if that one is configured; the next cycle starts
\* every configured source, the failed one included, at page 1.
C10_FetchErrorAbortsSourceOnly == []C10_Inv /\ [][C10_Step]_vars

\* C10 witness: the second request to source 1 failed after the first page
\* was enqueued, and the gateway is at the first page of source 2.
C10_Witness ==
    /\ gw[1].pc = "fetch" /\ gw[1].source = 2 /\ gw[1].page = 1
    /\ gw[1].failed = {1} /\ gw[1].reqs = 2
    /\ queue # <<>>

RelatedSet(s) == Range(summaries[s].related_article_ids)

MarkedWith(s) == {i \in DOMAIN articles : articles[i].cluster_id = s}

\* C2: when a clustering cycle has run to completion, every summary document
\* it created has article_count equal to the number of articles whose
\* cluster_id is its id, and related_article_ids is exactly that set of
\* articles.
C2_LinkageConsistent ==
    \A e \in EngIds :
        eng[e].pc = "idle" =>
            \A s \in eng[e].created :
                /\ summaries[s].article_count = Cardinality(MarkedWith(s))
                /\ RelatedSet(s) = MarkedWith(s)

\* C2 witness: a completed cycle created two summary documents.
C2_Witness ==
    /\ eng[1].pc = "idle"
    /\ Cardinality(eng[1].created) = 2

C3_Step ==
    /\ Len(articles') >= Len(articles)
    /\ \A i \in DOMAIN articles' :
          IF i \in DOMAIN articles
          THEN /\ articles[i].cluster_id # NoCluster =>
                    articles'[i].cluster_id = articles[i].cluster_id
               /\ articles'[i].cluster_id # articles[i].cluster_id =>
                    /\ wk' = wk /\ gw' = gw
                    /\ \E e \in EngIds : eng[e].pc = "bulk" /\ eng'[e].pc = "idle"
          ELSE /\ articles'[i].cluster_id = NoCluster
               /\ eng' = eng /\ gw' = gw
               /\ \E w \in WkIds : wk[w].pc = "process" /\ wk'[w].pc = "pop"

\* C3: an article document is created by the worker without cluster_id; a
\* cluster_id is written only by the engine's bulk write; and a document that
\* has a cluster_id keeps it unchanged in every later step.
C3_ClusterIdSetOnce == [][C3_Step]_vars

\* C3 witness: a second cycle has marked articles with summary 2 while the
\* article marked with summary 1 in an earlier cycle still carries 1.
C3_Witness ==
    /\ eng[1].pc = "idle" /\ eng[1].created = {2}
    /\ MarkedWith(1) # {} /\ MarkedWith(2) # {}

OracleFailed(c) == c \in {"raised", "unparseable"}

C4_Cluster(e, k) ==
    LET members == Range(eng[e].clusters[k])
        docs == {s \in eng[e].created : RelatedSet(s) \cap members # {}}
    IN /\ eng[e].log[k] = "object" =>
            /\ Cardinality(docs) = 1
            /\ \A s \in docs : RelatedSet(s) = members /\ members \subseteq MarkedWith(s)
       /\ OracleFailed(eng[e].log[k]) =>
            /\ docs = {}
            /\ \A m \in members : articles[m].cluster_id = NoCluster

\* C4: at the end of a cycle the oracle was called for every cluster formed;
\* a cluster for which it returned the requested object has exactly one
\* summary document and all its members carry that document's id, also when
\* the call failed (raised, or returned text that is no JSON) for other
\* clusters; the members of a failing cluster have no cluster_id and no
\* summary document lists them.
C4_PartialFailureIsolated ==
    \A e \in EngIds :
        eng[e].pc = "idle" =>
            /\ Len(eng[e].log) = Len(eng[e].clusters)
            /\ \A k \in DOMAIN eng[e].clusters : C4_Cluster(e, k)

\* C4 witness: a completed cycle over two clusters, the oracle raised for
\* the first and answered for the second.
C4_Witness ==
    /\ eng[1].pc = "idle"
    /\ eng[1].log = <<"raised", "object">>
    /\ Cardinality(eng[1].created) = 1

NumUnclustered == Cardinality({i \in DOMAIN articles : articles[i].cluster_id = NoCluster})

C7_Step ==
    \A e \in EngIds :
        eng[e].pc = "idle" /\ eng'[e] # eng[e] /\ NumUnclustered < 2 =>
            /\ eng'[e].pc = "idle"
            /\ eng'[e].log = <<>>
            /\ eng'[e].created = {}
            /\ summaries' = summaries
            /\ articles' = articles

\* C7: a cycle that starts with fewer than 2 articles without cluster_id
\* ends in its first step with no oracle call made, no summary document
\* created and the article collection unchanged.
C7_TooFewIsNoOp == [][C7_Step]_vars

\* C7 witness: after an earlier cycle clustered two articles, a cycle found
\* the single remaining one and stopped.
C7_Witness ==
    /\ eng[1].pc = "idle" /\ Len(eng[1].found) = 1 /\ eng[1].log = <<>>
    /\ summaries # <<>>

\* The found article at position p has no other found article within the radius.
IsNoise(found, p) ==
    \A q \in DOMAIN found :
        q # p => ~WithinEps(articles[found[p]].embedding, articles[found[q]].embedding)

NoiseOf(found) == {found[p] : p \in {q \in DOMAIN found : IsNoise(found, q)}}

C8_Inv ==
    \A e \in EngIds :
        \A a \in NoiseOf(eng[e].found) :
            /\ articles[a].cluster_id = NoCluster
            /\ \A s \in eng[e].created : a \notin RelatedSet(s)

C8_Step ==
    \A e \in EngIds :
        eng[e].pc = "idle" /\ eng'[e] # eng[e] =>
            NoiseOf(eng[e].found) \subseteq Range(eng'[e].found)

\* C8: an article the cycle selected that has no other selected article
\* within the radius gets no cluster_id from the cycle, is listed by no
\* summary document the cycle creates, and is selected again by the next cycle.
C8_NoiseUntouched == []C8_Inv /\ [][C8_Step]_vars

\* C8 witness: a completed cycle created a summary document and left a
\* noise article, which the following cycle has selected again.
C8_Witness ==
    /\ eng[1].pc = "idle" /\ eng[1].created = {}
    /\ summaries # <<>>
    /\ NoiseOf(eng[1].found) # {}
    /\ \E a \in NoiseOf(eng[1].found) : a < summaries[1].related_article_ids[1]

\* C9: a response text that does not parse into the requested object (text
\* that is no JSON, or a JSON list, string or empty object) makes the cycle
\* skip that cluster only: no summary document for it, its members without
\* cluster_id, and the run not aborted.
C9_BadResponseSkipsClusterOnly ==
    \A e \in EngIds :
        \A k \in DOMAIN eng[e].log :
            eng[e].log[k] \in {"unparseable", "othershape"} =>
                /\ eng[e].pc # "terminated"
                /\ \A s \in eng[e].created :
                      RelatedSet(s) \cap Range(eng[e].clusters[k]) = {}
                /\ \A m \in Range(eng[e].clusters[k]) :
                      articles[m].cluster_id = NoCluster

StoredUrls == {articles[i].url : i \in DOMAIN articles}

C11_Inv ==
    /\ \A w \in WkIds : wk[w].pc \in {"off", "pop", "process"}
    /\ BadJson \notin StoredUrls
    /\ \A w \in WkIds : wk[w].dropped \cap StoredUrls = {}

C11_Step ==
    \A w \in WkIds :
        /\ wk[w].pc = "process" /\ wk'[w] # wk[w] =>
              /\ wk'[w].pc = "pop"
              /\ queue' = queue
              /\ IF wk[w].item \in wk'[w].dropped
                 THEN articles' = articles
                 ELSE /\ articles' = Append(articles, articles'[Len(articles')])
                      /\ articles'[Len(articles')].url = wk[w].item
                      /\ wk'[w].dropped = wk[w].dropped
        /\ wk[w].pc = "pop" /\ wk'[w] # wk[w] =>
              /\ wk'[w].pc = "process"
              /\ wk'[w].item = queue[Len(queue)]
              /\ queue' = SubSeq(queue, 1, Len(queue) - 1)
              /\ articles' = articles

\* C11: when processing a popped item fails (the item is no JSON text, or
\* encoding or the insert raises), no article document is written for that
\* item, the worker does not terminate but is back at the top of its loop,
\* and its next iteration pops the item now at the right end of the queue.
C11_ItemFailureSkipsItemOnly == []C11_Inv /\ [][C11_Step]_vars

\* C11 witness: the worker failed on an item that is no JSON text and on an
\* article, stored nothing, and has popped the item after them.
C11_Witness ==
    /\ wk[1].pc = "process" /\ wk[1].item \in AllUrls
    /\ BadJson \in wk[1].dropped
    /\ wk[1].dropped \cap AllUrls # {}
    /\ articles = <<>>

\* Cosine distance at most one half, the radius threshold: cos(a, b) >= 1/2.
C12_Near(a, b) ==
    Dot(a, b) >= 0 /\ 4 * Dot(a, b) * Dot(a, b) >= Dot(a, a) * Dot(b, b)

\* The found articles of r are four with distinct ingested URLs, three of
\* them (ABC) pairwise within the radius and the fourth (D) within the radius
\* of none of the three.
C12_Case(r, ABC, D) ==
    /\ Len(r.found) = 4
    /\ D \in Range(r.found) /\ ABC = Range(r.found) \ {D}
    /\ Cardinality({articles[i].url : i \in Range(r.found)}) = 4
    /\ \A i \in Range(r.found) : pushed[articles[i].url] = 1
    /\ \A a, b \in ABC : C12_Near(articles[a].embedding, articles[b].embedding)
    /\ \A a \in ABC : ~C12_Near(articles[D].embedding, articles[a].embedding)

\* C12: end to end, when the gateway has ingested four articles with
\* distinct URLs, the worker has embedded all four, three of them are
\* pairwise within the radius and the fourth is within the radius of none,
\* a completed cycle over the four in which the oracle succeeded has created
\* exactly one summary document, with article_count 3 and the three as
\* related_article_ids; the three carry its id as cluster_id and the fourth
\* has no cluster_id.
C12_EndToEnd ==
    \A e \in EngIds : \A D \in DOMAIN articles :
        LET r == eng[e]
            ABC == Range(r.found) \ {D}
        IN r.pc = "idle" /\ C12_Case(r, ABC, D)
              /\ (\A k \in DOMAIN r.log : r.log[k] = "object")
           => /\ Cardinality(r.created) = 1
              /\ Len(r.log) = 1
              /\ \A s \in r.created :
                    /\ summaries[s].article_count = 3
                    /\ RelatedSet(s) = ABC
                    /\ Len(summaries[s].related_article_ids) = 3
                    /\ MarkedWith(s) = ABC
              /\ articles[D].cluster_id = NoCluster

\* C12 witness: such a cycle has completed, over three articles with two
\* different embeddings and a fourth one.
C12_Witness ==
    \E D \in DOMAIN articles :
        /\ eng[1].pc = "idle" /\ eng[1].log = <<"object">>
        /\ C12_Case(eng[1], Range(eng[1].found) \ {D}, D)
        /\ Cardinality({articles[i].embedding : i \in Range(eng[1].found)}) = 3
        /\ seen = 1..4 /\ queue = <<>>

\* C13: the gateway records a new URL in the seen set before it pushes the
\* queue item: in every state, also one left by a store error between the
\* two calls, every URL that has been pushed is in the seen set.
C13_PushedImpliesSeen ==
    \A u \in AllUrls : pushed[u] > 0 => u \in seen

\* C14: the members of a summarized cluster are marked right after the
\* summary document is inserted: whenever the engine is about to call the
\* oracle, every summary document created so far in this cycle has all its
\* related_article_ids marked with its id.
C14_MarkedBeforeNextOracleCall ==
    \A e \in EngIds :
        eng[e].pc = "summarize" =>
            \A s \in eng[e].created : RelatedSet(s) \subseteq MarkedWith(s)

\* The number of items on the queue that carry URL u.
OnQueue(u) == Cardinality({i \in DOMAIN queue : queue[i] = u})

C15_Inv ==
    \A u \in Urls :
        /\ pushed[u] <= Cardinality({g \in GwIds : gw[g].pc # "off"})
        /\ OnQueue(u) = pushed[u]

C15_Step ==
    \A g \in GwIds :
        LET u == Current(gw[g]) IN
          /\ gw[g].pc = "check" /\ gw'[g].pc = "push" => u \notin seen
          /\ gw[g].pc = "push" /\ gw'[g].pc = "add" /\ pushed[u] >= 1 =>
                \/ u \in seen
                \/ \E h \in GwIds \ {g} : gw[h].pc = "add" /\ Current(gw[h]) = u

\* C15: with two gateway instances on the same Redis the membership test,
\* the push and the set-add of the two interleave: a gateway pushes a URL
\* whose test it passed, also when the other instance has pushed the same URL
\* since (and has added it to the seen set or is about to); the queue keeps
\* both items.  No URL is pushed more often than there are instances.
C15_TwoGatewaysDoublePush == []C15_Inv /\ [][C15_Step]_vars

\* C15 witness: one URL has been pushed twice, both items are on the queue
\* and both instances have finished their set-add.
C15_Witness ==
    \E u \in Urls :
        /\ pushed[u] = 2 /\ OnQueue(u) = 2
        /\ u \in seen
        /\ \A g \in GwIds : gw[g].pc = "idle"

\* The summary documents that list article i.
ListedBy(i) == {s \in DOMAIN summaries : i \in RelatedSet(s)}

C16_Inv ==
    /\ \A i \in DOMAIN articles :
          Cardinality(ListedBy(i)) <= Cardinality({e \in EngIds : eng[e].pc # "off"})
    /\ \A e \in EngIds : \A s, t \in eng[e].created :
          s # t => RelatedSet(s) \cap RelatedSet(t) = {}

C16_Step ==
    \A i \in DOMAIN articles :
        LET a == articles[i].cluster_id
            b == articles'[i].cluster_id
        IN a # NoCluster /\ b # a =>
              /\ {a, b} \subseteq ListedBy(i)
              /\ \E e \in EngIds :
                    /\ eng[e].pc = "bulk" /\ eng'[e].pc = "idle"
                    /\ b \in eng[e].created /\ a \notin eng[e].created
                    /\ i \in Range(eng[e].found)

\* C16: with two clustering cycles running concurrently on the same
\* collections, both can select the same unclustered articles, call the
\* oracle for the same cluster and insert a summary document each, and the
\* later bulk write overwrites the cluster_id the earlier one set.  A
\* cluster_id is overwritten only so: by the bulk write of a cycle that
\* selected the article, with the id of a summary that cycle created, over
\* the id of a summary of another cycle that lists the article too.  One
\* cycle never lists an article twice, so no article is listed by more
\* summaries than there are instances.
C16_TwoCyclesDoubleCluster == []C16_Inv /\ [][C16_Step]_vars

\* C16 witness: both instances selected the same articles, called the oracle
\* for the same cluster, inserted a summary each with the same
\* related_article_ids and ran their bulk write; the members carry the id
\* written last, none the id written first.
C16_Witness ==
    /\ eng[1].pc = "idle" /\ eng[2].pc = "idle"
    /\ eng[1].found = eng[2].found
    /\ eng[1].clusters = eng[2].clusters
    /\ eng[1].log = <<"object">> /\ eng[2].log = <<"object">>
    /\ eng[1].written > 0 /\ eng[2].written > 0
    /\ \E s \in eng[1].created : \E t \in eng[2].created :
          /\ s # t
          /\ summaries[s].related_article_ids = summaries[t].related_article_ids
          /\ MarkedWith(s) = {}
          /\ MarkedWith(t) = RelatedSet(t)

C17_Inv ==
    \A w \in WkIds : wk[w].dropped \cap StoredUrls = {}

C17_Step ==
    /\ Len(queue') > Len(queue) =>
          /\ queue' = <<queue'[1]>> \o queue
          /\ pushed[queue'[1]] = 0
          /\ \E g \in GwIds : gw[g].pc = "push" /\ Current(gw[g]) = queue'[1]
          /\ wk' = wk
    /\ \A w \in WkIds :
          wk'[w].dropped # wk[w].dropped => queue' = queue /\ articles' = articles

\* C17: an item the worker popped is never put back on the queue: only the
\* gateway's push adds an item, and only for a URL never pushed before.  So
\* when the worker is killed between the pop and the insert, no article
\* document for the item's URL exists in any later state, whatever the
\* restarted worker and the later gateway cycles do.
C17_PoppedItemLostOnCrash == []C17_Inv /\ [][C17_Step]_vars

\* C17 witness: the worker was killed holding an item and restarted; it has
\* stored a later article; a later page offered the lost URL again and the
\* gateway skipped it.
C17_Witness ==
    /\ wk[1].pc = "pop" /\ wk[1].dropped # {}
    /\ articles # <<>>
    /\ gw[1].pc = "check" /\ gw[1].idx = 2 /\ ~gw[1].found
    /\ gw[1].articles[1] \in wk[1].dropped
    /\ queue = <<>>

C18_Step ==
    \A e \in EngIds :
        eng[e].pc = "idle" /\ eng'[e] # eng[e] =>
            \A k \in DOMAIN eng[e].log :
                OracleFailed(eng[e].log[k]) =>
                    \A m \in Range(eng[e].clusters[k]) :
                        /\ m \in Range(eng'[e].found)
                        /\ \E c \in DOMAIN eng'[e].clusters : m \in Range(eng'[e].clusters[c])

\* Every article that was ever a member of a skipped cluster has a cluster_id.
AllSkippedMarked ==
    \A e \in EngIds : \A i \in eng[e].skipped : articles[i].cluster_id # NoCluster

\* skipped only grows and a cluster_id stays: each skipped article is marked
\* from some moment on exactly if again and again all of them are.
C18_Live == []<>AllSkippedMarked

\* C18: the members of a cluster skipped because the oracle call raised or
\* its text did not parse are selected again by the next cycle and fall into
\* a cluster again; when the loop keeps running and the oracle does not fail
\* forever, every such article eventually has a cluster_id.
C18_SkippedClusterRetried == [][C18_Step]_vars /\ C18_Live

\* C18 witness: an article that was a member of a skipped cluster carries a
\* cluster_id written by a later cycle.
C18_Witness ==
    \E i \in DOMAIN articles :
        /\ i \in eng[1].skipped
        /\ articles[i].cluster_id # NoCluster
        /\ eng[1].pc = "idle" /\ eng[1].log = <<"object">>

\* C19: a run over one source issues at most MAX_PAGES_TO_FETCH = 10 page
\* requests, also when every request returns a page with a new URL: the page
\* number never passes 10 and after the tenth page the gateway leaves the
\* source.
C19_AtMostTenPages ==
    \A g \in GwIds :
        /\ gw[g].reqs <= MAX_PAGES_TO_FETCH
        /\ gw[g].page <= MAX_PAGES_TO_FETCH
        /\ gw[g].pc \in {"check", "push", "add"} => gw[g].reqs = gw[g].page

\* C19 witness: the run over the first source ended after ten requests that
\* each returned a new article, and the gateway is at the second source.
C19_Witness ==
    /\ gw[1].pc = "fetch" /\ gw[1].source = 2 /\ gw[1].page = 1
    /\ gw[1].reqs = MAX_PAGES_TO_FETCH /\ gw[1].hadNew
    /\ seen = 1..MAX_PAGES_TO_FETCH
    /\ Len(queue) = MAX_PAGES_TO_FETCH

\* C20: over any sequence of cycles that do not overlap, cycles cut short by
\* a store error or a kill included, no article is listed in the
\* related_article_ids of more than one summary document.
C20_NoArticleInTwoSummaries ==
    \A i \in DOMAIN articles : Cardinality(ListedBy(i)) <= 1

\* The workers that hold an item with URL u, the article documents with URL
\* u, and the workers that dropped an item with URL u.
HeldBy(u) == {w \in WkIds : wk[w].pc = "process" /\ wk[w].item = u}

StoredAs(u) == {i \in DOMAIN articles : articles[i].url = u}

DroppedBy(u) == {w \in WkIds : u \in wk[w].dropped}

C21_Inv ==
    \A u \in Urls :
        /\ Cardinality(StoredAs(u)) <= 1
        /\ Cardinality(HeldBy(u)) <= 1
        /\ OnQueue(u) + Cardinality(HeldBy(u)) + Cardinality(StoredAs(u))
              + Cardinality(DroppedBy(u)) = pushed[u]

C21_Step ==
    \A w \in WkIds :
        /\ wk[w].pc = "pop" /\ wk'[w].pc = "process" =>
              /\ wk'[w].item = queue[Len(queue)]
              /\ queue' = SubSeq(queue, 1, Len(queue) - 1)
              /\ \A x \in WkIds \ {w} : wk'[x] = wk[x]
        /\ wk[w].pc = "process" /\ wk'[w].pc = "pop" =>
              /\ Len(articles') <= Len(articles) + 1
              /\ \A i \in DOMAIN articles' \ DOMAIN articles :
                    articles'[i].url = wk[w].item

\* C21: with one gateway and several workers popping from the same queue,
\* the article collection never holds two documents with the same URL: a
\* pushed item is at any moment in exactly one place (on the queue, held by
\* one worker, stored as one document, or dropped by one worker), a pop
\* hands the item at the right end to the one worker that popped, and
\* processing an item inserts at most one document, with that item's URL.
C21_NoDuplicateArticle == []C21_Inv /\ [][C21_Step]_vars

\* C21 witness: the two workers hold different items at the same time, after
\* the gateway was offered an ingested URL again and skipped it.
C21_Witness ==
    /\ wk[1].pc = "process" /\ wk[2].pc = "process"
    /\ wk[1].item # wk[2].item
    /\ gw[1].pc = "check" /\ gw[1].idx = 2 /\ ~gw[1].found
    /\ gw[1].articles[1] \in seen

\* C5: none of the long-running processes ever terminates: whatever is raised
\* in a loop iteration, a store failure included, the loop goes on.
C5_NoProcessTerminates ==
    /\ \A g \in GwIds : gw[g].pc # "terminated"
    /\ \A w \in WkIds : wk[w].pc # "terminated"
    /\ \A e \in EngIds : eng[e].pc # "terminated"

====
